---------------------------- MODULE Spec2Model ----------------------------
(***************************************************************************)
(* Model of the tiger-car dual-channel PWM output drivers (src/src/lib.rs)  *)
(* and of the ROS node that shares them between subscriber callbacks       *)
(* (src/src/main.rs).                                                       *)
(*                                                                         *)
(* f64 values (command values, duty cycles, frequencies) are fixed-point   *)
(* integers in units of 1/One, so One stands for the literal 1.0.  Every   *)
(* arithmetic operation of linear_map rounds its result to Precision       *)
(* significant decimal digits (round to nearest, ties to even), as f64     *)
(* rounds to 53 significant bits.  The command values and dead-zone floors *)
(* of the drivers are drawn from grids on which no operation rounds.       *)
(***************************************************************************)
EXTENDS Integers, Sequences, FiniteSets, TLC

\* The f64 literal 1.0 in fixed point.
One == 1000

\* Significant decimal digits kept by an arithmetic operation.
Precision == 3

\* Number of threads that may call into the shared handles concurrently.
NumCallers == 2

Callers == 1..NumCallers

\* The two actuators of the car.
Actuators == {"steering", "drivetrain"}

\* Nobody holds the Mutex.
NoOwner == 0

\* Command values that arrive on the topics (v.data), in and out of range.
Values == {-5 * One, -One \div 2, 0, One \div 2, One, 2 * One}

\* Requested constructor arguments <<frequency, min_duty_cycle>> of the
\* steering and of the drivetrain driver: the constants of main.rs, and
\* values below and above the legal ranges.
Requested ==
    { << <<50 * One, One \div 5>>, <<50 * One, (15 * One) \div 100>> >>,
      << <<-10 * One, -One \div 2>>, <<60 * One, (3 * One) \div 2>> >> }

\* The same, as the arguments of each actuator's constructor call.
RequestedArgs ==
    { [a \in Actuators |-> IF a = "steering" THEN r[1] ELSE r[2]] : r \in Requested }

VARIABLES
    duty,      \* duty[a] = <<pwm_0, pwm_1>>: duty cycle of each channel of actuator a
    cfg,       \* cfg[a]: the frequency and min_duty_cycle fields of the driver
    req,       \* req[a]: the <<frequency, min_duty_cycle>> passed to new() for a
    test,      \* arguments and result of the linear_map call under test
    failed,    \* failed[a]: some channel write on a has failed so far
    life,      \* life[a]: "none" | "live" | "released" | "aborted"
    guard,     \* guard[a]: the caller holding the Mutex of a, or NoOwner
    pc,        \* pc[t]: "idle" | "lock" | "w0" | "w1" | "ret"
    call,      \* call[t]: actuator and argument of the set_output call of t
    log,       \* log[t]: the channel writes attempted by the current call of t
    result,    \* result[t]: "none" | "Ok" | "Err", what the call returned
    prog,      \* the lib.rs program the main thread runs ("none" under main.rs)
    ip,        \* index of the next statement of prog
    panicked   \* an unwrap() failed and the main thread is unwinding

vars == <<duty, cfg, req, test, failed, life, guard, pc, call, log, result, prog, ip, panicked>>

----------------------------------------------------------------------------
\* Helpers standing for f64::max and f64::min.
Max(x, y) == IF x >= y THEN x ELSE y

Min(x, y) == IF x <= y THEN x ELSE y

Abs(x) == IF x < 0 THEN -x ELSE x

RECURSIVE Pow10(_)
Pow10(n) == IF n = 0 THEN 1 ELSE 10 * Pow10(n - 1)

\* The weight of the last significant digit of a number whose integer part
\* (in units of 1/One) is k: the least power of ten q >= from such that
\* k / q has at most Precision digits.
MantissaBound == Pow10(Precision)

RECURSIVE Quantum(_, _)
Quantum(k, from) ==
    IF k < MantissaBound * from THEN from ELSE Quantum(k, 10 * from)

\* The rational N / D (N >= 0, D > 0) rounded to Precision significant
\* digits, to nearest and ties to even; below the unit 1/One the result is
\* rounded to the unit.
RoundMag(N, D) ==
    LET k    == N \div D
        q    == Quantum(k, 1)
        base == (k \div q) * q
        R    == N - base * D
        up   == \/ 2 * R > q * D
                \/ 2 * R = q * D /\ (base \div q) % 2 = 1
    IN  IF up THEN base + q ELSE base

\* The rational n / d (d # 0) rounded, with its sign.  The operands are
\* bound to their values nv, dv first, so that each is computed once.
\* A quotient that is a whole number of units of at most Precision digits
\* is its own rounding.
RoundRat(n, d) ==
    CHOOSE r \in { IF dv > 0 /\ nv % dv = 0 /\ Abs(nv \div dv) <= MantissaBound
                      THEN nv \div dv
                      ELSE IF (nv < 0) # (dv < 0)
                      THEN -RoundMag(Abs(nv), Abs(dv))
                      ELSE RoundMag(Abs(nv), Abs(dv)) : nv \in {n}, dv \in {d} } : TRUE

\* The f64 operators +, -, *, /.
FAdd(x, y) == RoundRat(x + y, 1)

FSub(x, y) == RoundRat(x - y, 1)

FMul(x, y) == RoundRat(x * y, One)

FDiv(x, y) == RoundRat(x * One, y)

\* linear_map scaling by b.1 instead of the width of b.
linear_map_WrongSpan(input, a, b) ==
    ((input - a[1]) * b[2]) \div (a[2] - a[1]) + b[1]

\* linear_map without the offset b.0.
linear_map_NoOffset(input, a, b) ==
    ((input - a[1]) * (b[2] - b[1])) \div (a[2] - a[1])

\* linear_map without the offset a.0 of the input.
linear_map_NoFromOffset(input, a, b) ==
    FAdd(FDiv(FMul(input, FSub(b[2], b[1])), FSub(a[2], a[1])), b[1])

\* (input - a.0) * (b.1 - b.0) / (a.1 - a.0) + b.0
linear_map(input, a, b) ==
    FAdd(FDiv(FMul(FSub(input, a[1]), FSub(b[2], b[1])), FSub(a[2], a[1])), b[1])

\* new() without the upper bound of min_duty_cycle.
NewConfig_NoUpper(frequency, min_duty_cycle) ==
    [ frequency      |-> Max(frequency, 0),
      min_duty_cycle |-> Max(min_duty_cycle, 0) ]

\* new(): frequency.max(0.0), min_duty_cycle.max(0.0).min(1.0)
NewConfig(frequency, min_duty_cycle) ==
    [ frequency      |-> Max(frequency, 0),
      min_duty_cycle |-> Min(Max(min_duty_cycle, 0), One) ]

\* Both channels are opened at duty cycle 0.0.
NewDuty == <<0, 0>>

\* The clamp without its upper bound.
Clamp_NoUpper(output) == Max(output, -One)

\* let output = output.max(-1.0).min(1.0);
Clamp(output) == Min(Max(output, -One), One)

\* The magnitude taken without negating.
Negate_Identity(output) == output

\* -1.0 * output
Negate(output) == (-One * output) \div One

\* pwm_0 written with the rescaled magnitude in the negative branch too.
Duty0_BothBranches(output, m) ==
    IF output = 0 THEN 0
    ELSE IF output > 0 THEN linear_map(output, <<0, One>>, <<m, One>>)
    ELSE linear_map(Negate(output), <<0, One>>, <<m, One>>)

\* The duty cycle set_output writes to pwm_0, for the clamped output.
Duty0(output, m) ==
    IF output = 0 THEN 0
    ELSE IF output > 0 THEN linear_map(output, <<0, One>>, <<m, One>>)
    ELSE 0

\* set_output without the output == 0.0 case: 0.0 falls into the last branch.
Duty1_NoZeroCase(output, m) ==
    IF output > 0 THEN 0
    ELSE linear_map(Negate(output), <<0, One>>, <<m, One>>)

\* The duty cycle set_output writes to pwm_1, for the clamped output.
Duty1(output, m) ==
    IF output = 0 THEN 0
    ELSE IF output > 0 THEN 0
    ELSE linear_map(Negate(output), <<0, One>>, <<m, One>>)

\* set_output(output) of a driver with dead-zone floor m: the duty cycles
\* it writes to pwm_0 and to pwm_1, in that order.
OutputWrites(output, m) ==
    << Duty0(Clamp(output), m), Duty1(Clamp(output), m) >>

\* SteeringController::set_output with the positive and the negative branch
\* writing to each other's channel.
SteeringOutputWrites_Swapped(output, m) ==
    LET clamped == Min(Max(output, -One), One)
    IN  IF clamped = 0 THEN <<0, 0>>
        ELSE IF clamped > 0
        THEN <<0, linear_map(clamped, <<0, One>>, <<m, One>>)>>
        ELSE <<linear_map(-1 * clamped, <<0, One>>, <<m, One>>), 0>>

\* SteeringController::set_output (the hardware PWM driver): the duty
\* cycles <<pwm_0, pwm_1>> it passes to set_duty_cycle.
\*   let output = output.max(-1.0).min(1.0);
\*   if output == 0.0 { 0.0; 0.0 }
\*   else if output > 0.0 { linear_map(output, ..); 0.0 }
\*   else { 0.0; linear_map(-1.0 * output, ..) }
SteeringOutputWrites(output, m) ==
    LET clamped == Min(Max(output, -One), One)
    IN  IF clamped = 0 THEN <<0, 0>>
        ELSE IF clamped > 0
        THEN <<linear_map(clamped, <<0, One>>, <<m, One>>), 0>>
        ELSE <<0, linear_map(-1 * clamped, <<0, One>>, <<m, One>>)>>

\* The driver type behind actuator a in program p: TigerCar declares
\* `drivetrain: SteeringController` and `steering: DrivetrainController`;
\* run_drivetrain, run_steering and the node use the software PWM driver.
DriverOf(p, a) ==
    IF p \in {"run_tiger", "pair"} /\ a = "drivetrain"
       THEN "SteeringController"
       ELSE "DrivetrainController"

\* The two duty cycles that set_output of the driver of actuator a writes
\* for the commanded value.
Writes(a, output) ==
    IF DriverOf(prog, a) = "SteeringController"
       THEN SteeringOutputWrites(output, cfg[a].min_duty_cycle)
       ELSE OutputWrites(output, cfg[a].min_duty_cycle)

\* The frame of a set_output call: the driver and the argument.
Frame(a, v) == [act |-> a, value |-> v]

NoCall == Frame("steering", 0)

\* No linear_map call is under test.
NoTest == [input |-> 0, a |-> <<0, 0>>, b |-> <<0, 0>>, out |-> 0, done |-> FALSE]

\* One attempted channel write: the channel (0 or 1), the frequency and
\* the duty cycle written, and whether the write succeeded.
Attempt(ch, f, d, ok) == [ch |-> ch, freq |-> f, duty |-> d, ok |-> ok]

\* A write at a fixed 50 Hz instead of the driver's frequency.
WriteFrequency_Literal(a) == 50 * One

\* The frequency of a channel write on actuator a: self.frequency, passed
\* to set_pwm_frequency with every write by the software PWM driver and
\* given once, when the channel is opened, by the hardware PWM driver.
WriteFrequency(a) == cfg[a].frequency

----------------------------------------------------------------------------
\* main(): both drivers are constructed and wrapped in Arc<Mutex<..>>
\* before any subscription exists.
Init ==
    /\ req \in RequestedArgs
    /\ cfg = [a \in Actuators |-> NewConfig(req[a][1], req[a][2])]
    /\ test = NoTest
    /\ duty = [a \in Actuators |-> NewDuty]
    /\ failed = [a \in Actuators |-> FALSE]
    /\ life = [a \in Actuators |-> "live"]
    /\ guard = [a \in Actuators |-> NoOwner]
    /\ pc = [t \in Callers |-> "idle"]
    /\ call = [t \in Callers |-> NoCall]
    /\ log = [t \in Callers |-> <<>>]
    /\ result = [t \in Callers |-> "none"]
    /\ prog = "none"
    /\ ip = 0
    /\ panicked = FALSE

\* A message arrives on the topic of actuator a and the subscriber's
\* callback starts on thread t (ros_info!("... Received")).
Receive(t, a) ==
    /\ prog = "none"
    /\ pc[t] = "idle"
    /\ pc' = [pc EXCEPT ![t] = "lock"]
    /\ call' = [call EXCEPT ![t] = Frame(a, 0)]
    /\ UNCHANGED <<duty, cfg, req, test, failed, life, guard, log, result, prog, ip, panicked>>

\* Entering set_output without waiting for the Mutex.
Lock_NoGuard(t, v) ==
    /\ pc[t] = "lock"
    /\ guard' = [guard EXCEPT ![call[t].act] = t]
    /\ pc' = [pc EXCEPT ![t] = "w0"]
    /\ call' = [call EXCEPT ![t] = Frame(call[t].act, v)]
    /\ UNCHANGED <<duty, cfg, req, test, failed, life, log, result, prog, ip, panicked>>

\* One Mutex shared by both actuators: the caller waits until neither is
\* in use.
Lock_GlobalGuard(t, v) ==
    /\ pc[t] = "lock"
    /\ \A a \in Actuators : guard[a] = NoOwner
    /\ guard' = [guard EXCEPT ![call[t].act] = t]
    /\ pc' = [pc EXCEPT ![t] = "w0"]
    /\ call' = [call EXCEPT ![t] = Frame(call[t].act, v)]
    /\ UNCHANGED <<duty, cfg, req, test, failed, life, log, result, prog, ip, panicked>>

\* steering.lock().unwrap().output(v.data): the caller blocks until the
\* Mutex is free, acquires it and enters set_output with the value v of
\* the message.  Nothing reads v.data before this point except the log
\* line, so the model draws v when the call is entered.
Lock(t, v) ==
    /\ pc[t] = "lock"
    /\ guard[call[t].act] = NoOwner
    /\ guard' = [guard EXCEPT ![call[t].act] = t]
    /\ pc' = [pc EXCEPT ![t] = "w0"]
    /\ call' = [call EXCEPT ![t] = Frame(call[t].act, v)]
    /\ UNCHANGED <<duty, cfg, req, test, failed, life, log, result, prog, ip, panicked>>

\* The first write with its error discarded instead of returned.
Write0_Swallow(t, ok) ==
    /\ pc[t] = "w0"
    /\ LET a == call[t].act
           d == Writes(a, call[t].value)[1]
       IN  /\ log' = [log EXCEPT ![t] = Append(@, Attempt(0, WriteFrequency(a), d, ok))]
           /\ failed' = [failed EXCEPT ![a] = @ \/ ~ok]
           /\ duty' = IF ok THEN [duty EXCEPT ![a][1] = d] ELSE duty
           /\ pc' = [pc EXCEPT ![t] = "w1"]
           /\ UNCHANGED result
    /\ UNCHANGED <<cfg, req, test, life, guard, call, prog, ip, panicked>>

\* The first write, switching the second channel off when it fails.
Write0_DefensiveZero(t, ok) ==
    /\ pc[t] = "w0"
    /\ LET a == call[t].act
           d == Writes(a, call[t].value)[1]
       IN  /\ log' = [log EXCEPT ![t] = Append(@, Attempt(0, WriteFrequency(a), d, ok))]
           /\ failed' = [failed EXCEPT ![a] = @ \/ ~ok]
           /\ IF ok
                 THEN /\ duty' = [duty EXCEPT ![a][1] = d]
                      /\ pc' = [pc EXCEPT ![t] = "w1"]
                      /\ UNCHANGED result
                 ELSE /\ pc' = [pc EXCEPT ![t] = "ret"]
                      /\ result' = [result EXCEPT ![t] = "Err"]
                      /\ duty' = [duty EXCEPT ![a][2] = 0]
    /\ UNCHANGED <<cfg, req, test, life, guard, call, prog, ip, panicked>>

\* The first channel write of set_output: self.pwm_0.set_...(..)?
\* A failed write leaves the channel as it was and returns the error.
Write0(t, ok) ==
    /\ pc[t] = "w0"
    /\ LET a == call[t].act
           d == Writes(a, call[t].value)[1]
       IN  /\ log' = [log EXCEPT ![t] = Append(@, Attempt(0, WriteFrequency(a), d, ok))]
           /\ failed' = [failed EXCEPT ![a] = @ \/ ~ok]
           /\ IF ok
                 THEN /\ duty' = [duty EXCEPT ![a][1] = d]
                      /\ pc' = [pc EXCEPT ![t] = "w1"]
                      /\ UNCHANGED result
                 ELSE /\ pc' = [pc EXCEPT ![t] = "ret"]
                      /\ result' = [result EXCEPT ![t] = "Err"]
                      /\ UNCHANGED duty
    /\ UNCHANGED <<cfg, req, test, life, guard, call, prog, ip, panicked>>

\* The second write made only when its duty cycle is not zero: the channel
\* is never switched off.
Write1_OnlyActive(t, ok) ==
    /\ pc[t] = "w1"
    /\ LET a == call[t].act
           d == Writes(a, call[t].value)[2]
       IN  /\ log' = [log EXCEPT ![t] = Append(@, Attempt(1, WriteFrequency(a), d, ok))]
           /\ failed' = [failed EXCEPT ![a] = @ \/ ~ok]
           /\ pc' = [pc EXCEPT ![t] = "ret"]
           /\ IF ok
                 THEN /\ duty' = IF d # 0 THEN [duty EXCEPT ![a][2] = d] ELSE duty
                      /\ result' = [result EXCEPT ![t] = "Ok"]
                 ELSE /\ result' = [result EXCEPT ![t] = "Err"]
                      /\ UNCHANGED duty
    /\ UNCHANGED <<cfg, req, test, life, guard, call, prog, ip, panicked>>

\* The second channel write of set_output: self.pwm_1.set_...(..)?; Ok(())
Write1(t, ok) ==
    /\ pc[t] = "w1"
    /\ LET a == call[t].act
           d == Writes(a, call[t].value)[2]
       IN  /\ log' = [log EXCEPT ![t] = Append(@, Attempt(1, WriteFrequency(a), d, ok))]
           /\ failed' = [failed EXCEPT ![a] = @ \/ ~ok]
           /\ pc' = [pc EXCEPT ![t] = "ret"]
           /\ IF ok
                 THEN /\ duty' = [duty EXCEPT ![a][2] = d]
                      /\ result' = [result EXCEPT ![t] = "Ok"]
                 ELSE /\ result' = [result EXCEPT ![t] = "Err"]
                      /\ UNCHANGED duty
    /\ UNCHANGED <<cfg, req, test, life, guard, call, prog, ip, panicked>>

\* A callback that drops the MutexGuard only when output returned Ok.
CallbackEnd_KeepOnErr(t) ==
    /\ pc[t] = "ret"
    /\ prog = "none"
    /\ guard' = IF result[t] = "Ok"
                   THEN [guard EXCEPT ![call[t].act] = NoOwner]
                   ELSE guard
    /\ pc' = [pc EXCEPT ![t] = "idle"]
    /\ call' = [call EXCEPT ![t] = NoCall]
    /\ log' = [log EXCEPT ![t] = <<>>]
    /\ result' = [result EXCEPT ![t] = "none"]
    /\ UNCHANGED <<duty, cfg, req, test, failed, life, prog, ip, panicked>>

\* End of the statement and of the callback: the MutexGuard temporary is
\* dropped, and an Err result is logged with ros_err! (the log is not
\* part of the state).
CallbackEnd(t) ==
    /\ pc[t] = "ret"
    /\ prog = "none"
    /\ guard' = [guard EXCEPT ![call[t].act] = NoOwner]
    /\ pc' = [pc EXCEPT ![t] = "idle"]
    /\ call' = [call EXCEPT ![t] = NoCall]
    /\ log' = [log EXCEPT ![t] = <<>>]
    /\ result' = [result EXCEPT ![t] = "none"]
    /\ UNCHANGED <<duty, cfg, req, test, failed, life, prog, ip, panicked>>

----------------------------------------------------------------------------
\* The manual programs of lib.rs.  The main thread is caller 1; the drivers
\* are owned directly, without a Mutex.
Programs == {"run_drivetrain", "run_steering", "run_tiger"}

MainThread == 1

Stmt(a, v) == Frame(a, v)

\* for i in -10..11 { controller.set_output(0.1 * i as f64).unwrap(); }
SteeringSweep == [k \in 1..21 |-> Stmt("steering", (k - 11) * (One \div 10))]

\* stop zeroing the drivetrain field before the steering field.
stop_DrivetrainFirst == << Stmt("drivetrain", 0), Stmt("steering", 0) >>

\* TigerCar::stop: the steering field first, the drivetrain field second.
stop == << Stmt("steering", 0), Stmt("drivetrain", 0) >>

\* The set_output(..).unwrap() statements of the function body, in order.
Body(p) ==
    CASE p = "run_drivetrain" ->
            << Stmt("drivetrain", One), Stmt("drivetrain", 0) >>
      [] p = "run_steering" ->
            SteeringSweep \o << Stmt("steering", -One \div 2),
                                Stmt("steering", One \div 2),
                                Stmt("steering", 0) >>
      [] p = "run_tiger" ->
            << Stmt("steering", One \div 2), Stmt("drivetrain", One \div 2) >>
                \o stop

\* What runs when the local goes out of scope: impl Drop for TigerCar calls
\* stop(); the two controllers have no Drop impl.
DropGlue(p) == IF p = "run_tiger" THEN stop ELSE << >>

Code(p) == Body(p) \o DropGlue(p)

\* The drivers the program constructs, with their constructor arguments.
Owned(p) ==
    CASE p = "run_drivetrain" -> {"drivetrain"}
      [] p = "run_steering" -> {"steering"}
      [] p = "run_tiger" -> {"steering", "drivetrain"}

CtorArgs(p, a) ==
    CASE p = "run_drivetrain" -> <<60 * One, One \div 5>>
      [] p = "run_steering" -> <<50 * One, 0>>
      [] p = "run_tiger" ->
            IF a = "steering" THEN <<40 * One, (3 * One) \div 10>>
                              ELSE <<50 * One, One \div 2>>

InitLib ==
    /\ prog \in Programs
    /\ req = [a \in Actuators |-> CtorArgs(prog, a)]
    /\ cfg = [a \in Actuators |-> NewConfig(req[a][1], req[a][2])]
    /\ test = NoTest
    /\ duty = [a \in Actuators |-> NewDuty]
    /\ failed = [a \in Actuators |-> FALSE]
    /\ life = [a \in Actuators |-> IF a \in Owned(prog) THEN "live" ELSE "none"]
    /\ guard = [a \in Actuators |-> NoOwner]
    /\ pc = [t \in Callers |-> "idle"]
    /\ call = [t \in Callers |-> NoCall]
    /\ log = [t \in Callers |-> <<>>]
    /\ result = [t \in Callers |-> "none"]
    /\ ip = 1
    /\ panicked = FALSE

\* The main thread enters the set_output call of its next statement.
ProgCall ==
    /\ prog \in Programs
    /\ pc[MainThread] = "idle"
    /\ ip <= Len(Code(prog))
    /\ pc' = [pc EXCEPT ![MainThread] = "w0"]
    /\ call' = [call EXCEPT ![MainThread] = Code(prog)[ip]]
    /\ log' = [log EXCEPT ![MainThread] = <<>>]
    /\ result' = [result EXCEPT ![MainThread] = "none"]
    /\ UNCHANGED <<duty, cfg, req, test, failed, life, guard, prog, ip, panicked>>

\* .unwrap() on the result of set_output.  Ok: the next statement.  Err:
\* panic; unwinding skips the rest of the body and runs the drop glue; a
\* panic inside the drop glue skips the rest of it, and aborts the process
\* when the thread is already unwinding.
ProgUnwrap ==
    /\ prog \in Programs
    /\ pc[MainThread] = "ret"
    /\ pc' = [pc EXCEPT ![MainThread] = "idle"]
    /\ call' = [call EXCEPT ![MainThread] = NoCall]
    /\ log' = [log EXCEPT ![MainThread] = <<>>]
    /\ result' = [result EXCEPT ![MainThread] = "none"]
    /\ IF result[MainThread] = "Ok"
          THEN /\ ip' = ip + 1
               /\ UNCHANGED <<panicked, life>>
          ELSE IF ip <= Len(Body(prog))
          THEN /\ ip' = Len(Body(prog)) + 1
               /\ panicked' = TRUE
               /\ UNCHANGED life
          ELSE /\ ip' = Len(Code(prog)) + 1
               /\ panicked' = TRUE
               /\ life' = IF panicked
                             THEN [a \in Actuators |->
                                     IF life[a] = "live" THEN "aborted" ELSE life[a]]
                             ELSE life
    /\ UNCHANGED <<duty, cfg, req, test, failed, guard, prog>>

\* The drivers are dropped: their pins and PWM channels are released.
ProgRelease ==
    /\ prog \in Programs
    /\ pc[MainThread] = "idle"
    /\ ip = Len(Code(prog)) + 1
    /\ \E a \in Actuators : life[a] = "live"
    /\ life' = [a \in Actuators |-> IF life[a] = "live" THEN "released" ELSE life[a]]
    /\ UNCHANGED <<duty, cfg, req, test, failed, guard, pc, call, log, result, prog, ip, panicked>>

NextLib ==
    \/ ProgCall
    \/ \E ok \in BOOLEAN : Write0(MainThread, ok)
    \/ \E ok \in BOOLEAN : Write1(MainThread, ok)
    \/ ProgUnwrap
    \/ ProgRelease

SpecLib == InitLib /\ [][NextLib]_vars

----------------------------------------------------------------------------
\* The two drivers side by side: a DrivetrainController (on "steering",
\* called by the main thread) and a SteeringController (on "drivetrain",
\* called by the replay thread) are constructed with one min_duty_cycle
\* and receive the same values; each write of the second has the outcome
\* that the corresponding write of the first had.
ReplayThread == 2

PairFloors == {-One \div 2, 0, One \div 5, One \div 2, One, (3 * One) \div 2}

InitPair ==
    /\ \E m \in PairFloors :
          req = [a \in Actuators |->
                   IF a = "steering" THEN <<40 * One, m>> ELSE <<50 * One, m>>]
    /\ cfg = [a \in Actuators |-> NewConfig(req[a][1], req[a][2])]
    /\ test = NoTest
    /\ duty = [a \in Actuators |-> NewDuty]
    /\ failed = [a \in Actuators |-> FALSE]
    /\ life = [a \in Actuators |-> "live"]
    /\ guard = [a \in Actuators |-> NoOwner]
    /\ pc = [t \in Callers |-> "idle"]
    /\ call = [t \in Callers |-> NoCall]
    /\ log = [t \in Callers |-> <<>>]
    /\ result = [t \in Callers |-> "none"]
    /\ prog = "pair"
    /\ ip = 0
    /\ panicked = FALSE

\* set_output(v) is called on both drivers.
PairCall(v) ==
    /\ prog = "pair"
    /\ pc[MainThread] = "idle" /\ pc[ReplayThread] = "idle"
    /\ pc' = [pc EXCEPT ![MainThread] = "w0", ![ReplayThread] = "w0"]
    /\ call' = [call EXCEPT ![MainThread] = Frame("steering", v),
                            ![ReplayThread] = Frame("drivetrain", v)]
    /\ UNCHANGED <<duty, cfg, req, test, failed, life, guard, log, result, prog, ip, panicked>>

\* The first write of the second driver, with the outcome of the first
\* write of the first driver.
PairReplay0 ==
    /\ prog = "pair"
    /\ pc[MainThread] = "ret"
    /\ Write0(ReplayThread, log[MainThread][1].ok)

\* The second write of the second driver, with the outcome of the second
\* write of the first driver.
PairReplay1 ==
    /\ prog = "pair"
    /\ pc[MainThread] = "ret"
    /\ Len(log[MainThread]) = 2
    /\ Write1(ReplayThread, log[MainThread][2].ok)

\* Both calls have returned; the results are dropped.
PairReturn ==
    /\ prog = "pair"
    /\ pc[MainThread] = "ret" /\ pc[ReplayThread] = "ret"
    /\ pc' = [pc EXCEPT ![MainThread] = "idle", ![ReplayThread] = "idle"]
    /\ call' = [call EXCEPT ![MainThread] = NoCall, ![ReplayThread] = NoCall]
    /\ log' = [log EXCEPT ![MainThread] = <<>>, ![ReplayThread] = <<>>]
    /\ result' = [result EXCEPT ![MainThread] = "none", ![ReplayThread] = "none"]
    /\ UNCHANGED <<duty, cfg, req, test, failed, life, guard, prog, ip, panicked>>

NextPair ==
    \/ \E v \in Values : PairCall(v)
    \/ \E ok \in BOOLEAN : Write0(MainThread, ok)
    \/ \E ok \in BOOLEAN : Write1(MainThread, ok)
    \/ PairReplay0
    \/ PairReplay1
    \/ PairReturn

SpecPair == InitPair /\ [][NextPair]_vars

----------------------------------------------------------------------------
\* linear_map on its own, as tests::test_linear_map calls it.  The inputs,
\* source intervals (a.1 # a.0) and target intervals contain the three
\* cases of the test, every endpoint, and the intervals the drivers use.
MapInputs == {0, One \div 2, One, 6 * One, 10 * One}

MapFrom == { <<0, One>>, <<0, 10 * One>>, <<One, 6 * One>>, <<10 * One, 0>> }

MapTo ==
    { <<0, 100 * One>>, <<10 * One, 20 * One>>, <<5 * One, 10 * One>>,
      <<(15 * One) \div 100, One>>, <<(3 * One) \div 10, (9 * One) \div 10>>,
      <<(5 * One) \div 1000, (101 * One) \div 100>> }

InitMap ==
    /\ \E i \in MapInputs, a \in MapFrom, b \in MapTo :
          test = [input |-> i, a |-> a, b |-> b, out |-> 0, done |-> FALSE]
    /\ req = [a \in Actuators |-> <<0, 0>>]
    /\ cfg = [a \in Actuators |-> NewConfig(0, 0)]
    /\ duty = [a \in Actuators |-> NewDuty]
    /\ failed = [a \in Actuators |-> FALSE]
    /\ life = [a \in Actuators |-> "none"]
    /\ guard = [a \in Actuators |-> NoOwner]
    /\ pc = [t \in Callers |-> "idle"]
    /\ call = [t \in Callers |-> NoCall]
    /\ log = [t \in Callers |-> <<>>]
    /\ result = [t \in Callers |-> "none"]
    /\ prog = "test_linear_map"
    /\ ip = 0
    /\ panicked = FALSE

\* linear_map(input, a, b) is called and returns.
MapApply ==
    /\ prog = "test_linear_map"
    /\ ~test.done
    /\ test' = [test EXCEPT !.out = linear_map(test.input, test.a, test.b),
                            !.done = TRUE]
    /\ UNCHANGED <<duty, cfg, req, failed, life, guard, pc, call, log, result,
                   prog, ip, panicked>>

NextMap == MapApply

SpecMap == InitMap /\ [][NextMap]_vars

----------------------------------------------------------------------------
Next ==
    \/ \E t \in Callers, a \in Actuators : Receive(t, a)
    \/ \E t \in Callers, v \in Values : Lock(t, v)
    \/ \E t \in Callers, ok \in BOOLEAN : Write0(t, ok)
    \/ \E t \in Callers, ok \in BOOLEAN : Write1(t, ok)
    \/ \E t \in Callers : CallbackEnd(t)

Spec == Init /\ [][Next]_vars

\* The node as main.rs configures it, receiving one backward and one
\* forward command value.
FairValues == {-One \div 2, One \div 2}

InitFair ==
    /\ Init
    /\ \A a \in Actuators : 0 <= req[a][2] /\ req[a][2] <= One

NextFair ==
    \/ \E t \in Callers, a \in Actuators : Receive(t, a)
    \/ \E t \in Callers, v \in FairValues : Lock(t, v)
    \/ \E t \in Callers, ok \in BOOLEAN : Write0(t, ok)
    \/ \E t \in Callers, ok \in BOOLEAN : Write1(t, ok)
    \/ \E t \in Callers : CallbackEnd(t)

\* Scheduling of the callback threads.  A thread inside set_output or at the
\* end of its statement keeps running (the channel writes return), and a
\* thread blocked in lock() that could acquire the Mutex again and again
\* eventually does.  Messages need not arrive: Receive has no fairness.
Fairness ==
    \A t \in Callers :
        /\ SF_vars(\E v \in FairValues : Lock(t, v))
        /\ WF_vars(\E ok \in BOOLEAN : Write0(t, ok))
        /\ WF_vars(\E ok \in BOOLEAN : Write1(t, ok))
        /\ WF_vars(CallbackEnd(t))

SpecFair == InitFair /\ [][NextFair]_vars /\ Fairness


----------------------------------------------------------------------------
\* Vocabulary of the properties.

InFlight(t) == pc[t] \in {"w0", "w1", "ret"}

Returned(t) == pc[t] = "ret"

ReturnedOk(t) == pc[t] = "ret" /\ result[t] = "Ok"

FloorOf(t) == cfg[call[t].act].min_duty_cycle

\* m + v * (1 - m)
Rescaled(v, m) == m + (v * (One - m)) \div One

Zeroed(a) == duty[a][1] = 0 /\ duty[a][2] = 0

Driving(a) == (duty[a][1] # 0) # (duty[a][2] # 0)

\* C1: in every state of a driver in which no channel write has failed,
\* the state between the two writes of one call included, at most one of
\* the two channels has a non-zero duty cycle.
C1_MutualExclusion ==
    \A a \in Actuators :
        ~failed[a] => ~(duty[a][1] # 0 /\ duty[a][2] # 0)

\* C2: whenever a driver has been destroyed and its channels released,
\* both of its channels are at duty cycle 0.0.
C2_TeardownZeroes ==
    \A a \in Actuators : life[a] = "released" => Zeroed(a)

\* C3: a successful output(0.0) leaves both channels at exactly 0.0.
C3_ZeroOutput ==
    \A t \in Callers :
        (ReturnedOk(t) /\ call[t].value = 0) => duty[call[t].act] = <<0, 0>>

C3_Witness ==
    \E t \in Callers :
        /\ ReturnedOk(t) /\ call[t].value = 0
        /\ FloorOf(t) = One \div 5
        /\ failed[call[t].act]
        /\ duty[call[t].act] = <<0, 0>>

C6_Clamping ==
    \A t \in Callers :
        (InFlight(t) /\ (call[t].value > One \/ call[t].value < -One))
            => LET bound == IF call[t].value > One THEN One ELSE -One
                   same == OutputWrites(bound, FloorOf(t))
               IN  /\ \A i \in 1..Len(log[t]) :
                          log[t][i].ch = i - 1 /\ log[t][i].duty = same[i]
                   /\ ReturnedOk(t) => duty[call[t].act] = same
                   /\ (Returned(t) /\ result[t] = "Err")
                          => ~log[t][Len(log[t])].ok

C6_Witness ==
    \E t \in Callers :
        /\ ReturnedOk(t) /\ call[t].value = 2 * One
        /\ FloorOf(t) = One \div 5
        /\ log[t] = << Attempt(0, WriteFrequency(call[t].act), One, TRUE),
                     Attempt(1, WriteFrequency(call[t].act), 0, TRUE) >>
        /\ duty[call[t].act] = <<One, 0>>

\* C7: for every floor m and every command of non-zero magnitude, the duty
\* cycle written to the active channel is in [m, 1.0] and is not 0.0; for
\* the command 0.0 every channel is written 0.0, not m.
C7_DeadZoneFloor ==
    \A t \in Callers :
        \A i \in 1..Len(log[t]) :
            LET v == call[t].value
                e == log[t][i]
                active == IF v > 0 THEN 0 ELSE 1
            IN  /\ (v # 0 /\ e.ch = active)
                      => (FloorOf(t) <= e.duty /\ e.duty <= One /\ e.duty # 0)
                /\ (v = 0) => e.duty = 0

C7_Witness ==
    \E t \in Callers :
        /\ InFlight(t) /\ call[t].value = -One \div 2
        /\ FloorOf(t) = One
        /\ Len(log[t]) = 2
        /\ log[t][2] = Attempt(1, WriteFrequency(call[t].act), One, TRUE)

\* C8: at most one output call on an actuator is in flight at any time,
\* and it is the call of the thread that holds the actuator's guard.
C8_OneInFlight ==
    \A a \in Actuators :
        /\ Cardinality({t \in Callers : InFlight(t) /\ call[t].act = a}) <= 1
        /\ \A t \in Callers : (InFlight(t) /\ call[t].act = a) => guard[a] = t

C8_Witness ==
    \E t, u \in Callers :
        /\ t # u
        /\ pc[t] = "w1" /\ pc[u] = "lock"
        /\ call[t].act = call[u].act

\* C9: output returns an error exactly when one of its channel writes
\* failed; the failed write is the last write of the call, and no channel
\* is written twice in one call.
C9_ErrorReturned ==
    \A t \in Callers :
        /\ \A i \in 1..Len(log[t]) : ~log[t][i].ok => (i = Len(log[t]) /\ Returned(t))
        /\ \A i, j \in 1..Len(log[t]) : log[t][i].ch = log[t][j].ch => i = j
        /\ Returned(t) =>
              /\ result[t] \in {"Ok", "Err"}
              /\ (result[t] = "Err") <=> (\E i \in 1..Len(log[t]) : ~log[t][i].ok)
              /\ (result[t] = "Ok") =>
                    (Len(log[t]) = 2 /\ log[t][1].ok /\ log[t][2].ok)

C9_Witness ==
    \E t \in Callers :
        /\ Returned(t) /\ result[t] = "Err"
        /\ Len(log[t]) = 2
        /\ log[t][1].ok /\ ~log[t][2].ok

\* C10: a driver is Zeroed after construction, and at the end of every
\* successful output call it is Zeroed if the clamped value is 0 and
\* Driving (exactly one channel non-zero) otherwise.
C10_StateMachine ==
    /\ \A a \in Actuators : Zeroed(a)
    /\ [](\A t \in Callers :
            ReturnedOk(t) =>
                IF call[t].value = 0 THEN Zeroed(call[t].act)
                                     ELSE Driving(call[t].act) /\ ~Zeroed(call[t].act))

C10_Witness ==
    \E t \in Callers :
        /\ ReturnedOk(t) /\ call[t].value = -5 * One
        /\ duty[call[t].act][1] = 0
        /\ duty[call[t].act][2] = One

\* C11: the constructed driver stores frequency = max(f, 0) and
\* min_duty_cycle = min(max(m, 0), 1) for the requested f and m, so the
\* stored frequency is >= 0 and the stored min_duty_cycle is in [0, 1].
C11_ConfigNormalised ==
    \A a \in Actuators :
        LET f == req[a][1]
            m == req[a][2]
        IN  /\ cfg[a].frequency = (IF f < 0 THEN 0 ELSE f)
            /\ cfg[a].min_duty_cycle = (IF m < 0 THEN 0 ELSE IF m > One THEN One ELSE m)
            /\ cfg[a].frequency >= 0
            /\ 0 <= cfg[a].min_duty_cycle /\ cfg[a].min_duty_cycle <= One

C11_Witness ==
    /\ req["steering"] = << -10 * One, -One \div 2 >>
    /\ cfg["steering"] = [frequency |-> 0, min_duty_cycle |-> 0]
    /\ req["drivetrain"][2] = (3 * One) \div 2
    /\ cfg["drivetrain"].min_duty_cycle = One
    /\ \E t \in Callers : ReturnedOk(t)

\* The rational n / d is a value of the arithmetic: rounding leaves it as it is.
Representable(n, d) == RoundRat(n, d) * d = n

\* No operation of linear_map(input, a, b) rounds its result.
ExactEval(input, a, b) ==
    LET x == input - a[1]
        w == b[2] - b[1]
        v == a[2] - a[1]
    IN  /\ Representable(x, 1) /\ Representable(w, 1) /\ Representable(v, 1)
        /\ Representable(x * w, One)
        /\ Representable(FMul(x, w) * One, v)
        /\ Representable(FDiv(FMul(x, w), v) + b[1], 1)

\* out = (input - a_lo) * (b_hi - b_lo) / (a_hi - a_lo) + b_lo, cleared of
\* the division.
IsAffineValue(out, input, a, b) ==
    (out - b[1]) * (a[2] - a[1]) = (input - a[1]) * (b[2] - b[1])

\* The three cases of tests::test_linear_map.
MapExamples ==
    /\ (test.input = 6 * One /\ test.a = <<0, 10 * One>> /\ test.b = <<0, 100 * One>>)
          => test.out = 60 * One
    /\ (test.input = 6 * One /\ test.a = <<0, 10 * One>> /\ test.b = <<10 * One, 20 * One>>)
          => test.out = 16 * One
    /\ (test.input = 6 * One /\ test.a = <<0, 10 * One>> /\ test.b = <<5 * One, 10 * One>>)
          => test.out = 8 * One

OwnWritesStand(t) ==
    \A i \in 1..Len(log[t]) :
        log[t][i].ok => duty[call[t].act][log[t][i].ch + 1] = log[t][i].duty

\* C14: concurrent calls on one actuator are applied one whole call after
\* the other, in the order in which they acquire the guard, and none is
\* merged or skipped: while a call holds the guard the channels carry
\* exactly its own writes, every call that returns Ok has made both of its
\* writes, only the holder of the guard changes a channel, and when the
\* last acquirer has returned Ok the channels are what its call alone
\* produces.
C14_Serialised ==
    /\ [](\A t \in Callers :
            InFlight(t) =>
                /\ guard[call[t].act] = t
                /\ OwnWritesStand(t)
                /\ ReturnedOk(t) =>
                      /\ Len(log[t]) = 2
                      /\ duty[call[t].act] = OutputWrites(call[t].value, FloorOf(t)))
    /\ [][\A a \in Actuators :
            duty'[a] # duty[a] =>
                /\ guard[a] # NoOwner
                /\ call[guard[a]].act = a
                /\ Len(log'[guard[a]]) = Len(log[guard[a]]) + 1]_vars

\* A call has returned Ok with the channels driven while another caller
\* waits for the guard of the same actuator.
C14_Witness ==
    \E t \in Callers, u \in Callers :
        /\ ReturnedOk(t)
        /\ Driving(call[t].act)
        /\ pc[u] = "lock"
        /\ call[u].act = call[t].act

\* The actuator on which a step of caller t acts.
ActingOn(t) == IF pc[t] = "idle" THEN call'[t].act ELSE call[t].act

\* C15: the two actuators are independent.  A step of a caller on one
\* actuator leaves the channels, the configuration, the guard and the
\* failure state of the other actuator unchanged, and a caller waiting for
\* the guard of one actuator can acquire it whenever that guard is free,
\* whoever holds or waits for the guard of the other.
C15_Independent ==
    /\ [](\A t \in Callers :
            (pc[t] = "lock" /\ guard[call[t].act] = NoOwner)
                => ENABLED (\E v \in Values : Lock(t, v)))
    /\ [][\A t \in Callers :
            pc'[t] # pc[t] =>
                \A b \in Actuators \ {ActingOn(t)} :
                    /\ duty'[b] = duty[b]
                    /\ cfg'[b] = cfg[b]
                    /\ guard'[b] = guard[b]
                    /\ failed'[b] = failed[b]]_vars

\* One caller is between the two writes of a call on the steering while
\* another has returned Ok from a call on the drivetrain and still holds
\* its guard.
C15_Witness ==
    \E t \in Callers, u \in Callers :
        /\ pc[t] = "w1" /\ call[t].act = "steering"
        /\ ReturnedOk(u) /\ call[u].act = "drivetrain"
        /\ Driving("drivetrain")
        /\ guard["steering"] = t /\ guard["drivetrain"] = u

\* The configuration that new() stored for actuator a.
Constructed(a) == NewConfig(req[a][1], req[a][2])

\* C16: the configuration of a driver is fixed at construction.  No step
\* (a call of output that succeeds or fails, stop, the drop of the car, a
\* panic) changes frequency or min_duty_cycle, and every channel write is
\* made at the frequency stored at construction with the duty cycle that
\* the floor stored at construction gives for the commanded value.
C16_ConfigFixed ==
    /\ [](\A a \in Actuators : cfg[a] = Constructed(a))
    /\ [][cfg' = cfg /\ req' = req]_vars
    /\ [](\A t \in Callers : \A i \in 1..Len(log[t]) :
            LET a == call[t].act
            IN  /\ log[t][i].freq = Constructed(a).frequency
                /\ log[t][i].duty =
                     OutputWrites(call[t].value, Constructed(a).min_duty_cycle)[i])

\* The car is dropped after a panic in run_tiger, and the second stop()
\* has written to the drivetrain at its 50 Hz with the floor 0.5 unchanged.
C16_Witness ==
    /\ prog = "run_tiger"
    /\ panicked
    /\ ip = Len(Code(prog))
    /\ pc[MainThread] = "ret"
    /\ call[MainThread].act = "drivetrain"
    /\ Len(log[MainThread]) = 2
    /\ log[MainThread][2].freq = 50 * One
    /\ cfg["drivetrain"] = [frequency |-> 50 * One, min_duty_cycle |-> One \div 2]
    /\ cfg["steering"] = [frequency |-> 40 * One, min_duty_cycle |-> (3 * One) \div 10]

\* The (channel, duty cycle, outcome) writes of the call of t, in order.
WriteSeq(t) ==
    [i \in 1..Len(log[t]) |-> <<log[t][i].ch, log[t][i].duty, log[t][i].ok>>]

\* C17: a DrivetrainController and a SteeringController constructed with
\* the same min_duty_cycle and given the same sequence of values, with the
\* same outcome for each write, issue the same sequence of (channel, duty
\* cycle) writes, return the same kind of result and leave their channels
\* in the same state after every call.
C17_SameContract ==
    /\ cfg["steering"].min_duty_cycle = cfg["drivetrain"].min_duty_cycle
    /\ (pc[MainThread] = "ret" /\ pc[ReplayThread] = "ret")
          => /\ call[MainThread].value = call[ReplayThread].value
             /\ WriteSeq(MainThread) = WriteSeq(ReplayThread)
             /\ result[MainThread] = result[ReplayThread]
    /\ (pc[MainThread] = pc[ReplayThread] /\ pc[MainThread] \in {"idle", "ret"})
          => duty["steering"] = duty["drivetrain"]

\* Both drivers have returned Ok from a reverse command at floor 0.2,
\* after an earlier call in which a write failed on each of them.
C17_Witness ==
    /\ prog = "pair"
    /\ cfg["steering"].min_duty_cycle = One \div 5
    /\ ReturnedOk(MainThread) /\ ReturnedOk(ReplayThread)
    /\ call[ReplayThread].value = -One \div 2
    /\ failed["steering"] /\ failed["drivetrain"]
    /\ duty["drivetrain"] = <<0, (3 * One) \div 5>>

\* C18: within one call pwm_0 is written first and pwm_1 second.  When the
\* write to pwm_0 fails the call returns the error at once: pwm_1 is not
\* written and both channels keep their previous duty cycles.  When the
\* write to pwm_0 succeeds and the write to pwm_1 fails, the call returns
\* the error, pwm_0 keeps its new duty cycle and pwm_1 its previous one.
C18_PartialWrite ==
    /\ [](\A t \in Callers :
            InFlight(t) =>
                /\ Len(log[t]) <= 2
                /\ \A i \in 1..Len(log[t]) : log[t][i].ch = i - 1
                /\ (Returned(t) /\ Len(log[t]) = 1)
                      => ~log[t][1].ok /\ result[t] = "Err"
                /\ (Returned(t) /\ Len(log[t]) = 2 /\ ~log[t][2].ok)
                      => /\ log[t][1].ok
                         /\ result[t] = "Err"
                         /\ duty[call[t].act][1] = log[t][1].duty)
    /\ [][\A t \in Callers :
            /\ (pc[t] = "w0" /\ pc'[t] # "w0")
                  => /\ duty'[call[t].act][2] = duty[call[t].act][2]
                     /\ pc'[t] = "ret"
                           => /\ duty'[call[t].act] = duty[call[t].act]
                              /\ Len(log'[t]) = 1
            /\ (pc[t] = "w1" /\ pc'[t] = "ret")
                  => /\ duty'[call[t].act][1] = duty[call[t].act][1]
                     /\ result'[t] = "Err"
                           => duty'[call[t].act][2] = duty[call[t].act][2]]_vars

\* One call has returned Err from its first write with pwm_1 still driven
\* as before; another has returned Err from its second write with pwm_0 at
\* its new, non-zero duty cycle.
C18_Witness ==
    \E t \in Callers, u \in Callers :
        /\ Returned(t) /\ result[t] = "Err" /\ Len(log[t]) = 1
        /\ duty[call[t].act][2] # 0
        /\ Returned(u) /\ result[u] = "Err" /\ Len(log[u]) = 2
        /\ log[u][1].ok
        /\ duty[call[u].act][1] = log[u][1].duty
        /\ duty[call[u].act][1] # 0

\* The statements of run_tiger at which an invocation of stop begins (its
\* steering statement): the call tiger.stop() that ends the body, and the
\* call made by Drop.
StopSteering == {Len(Body("run_tiger")) - Len(stop) + 1, Len(Body("run_tiger")) + 1}

\* The drivetrain statement of each invocation of stop.
StopDrivetrain == {i + 1 : i \in StopSteering}

\* C19: stop, called by run_tiger and again by the drop of the car, zeroes
\* the steering actuator first and the drivetrain actuator second.  When
\* both calls succeed all four channels are 0.  When zeroing the steering
\* actuator fails, stop panics: its drivetrain statement is skipped, and no
\* step of the invocation up to and including the panic changes a channel
\* of the drivetrain actuator.
C19_StopOrder ==
    /\ [](prog = "run_tiger" =>
            /\ \A i \in StopSteering : Code(prog)[i] = Stmt("steering", 0)
            /\ \A i \in StopDrivetrain : Code(prog)[i] = Stmt("drivetrain", 0)
            /\ InFlight(MainThread) => call[MainThread] = Code(prog)[ip]
            /\ (ip \in StopDrivetrain /\ ReturnedOk(MainThread))
                  => Zeroed("steering") /\ Zeroed("drivetrain"))
    /\ [][(prog = "run_tiger" /\ ip \in StopSteering) =>
            /\ duty'["drivetrain"] = duty["drivetrain"]
            /\ (pc[MainThread] = "ret" /\ result[MainThread] = "Err")
                  => /\ panicked'
                     /\ ip' > ip + 1
                     /\ pc'[MainThread] = "idle"
            /\ ip' = ip + 1 => Zeroed("steering")]_vars

\* Zeroing the steering actuator has failed in the stop() that ends
\* run_tiger, while the drivetrain is still driven at 0.75.
C19_Witness ==
    /\ prog = "run_tiger"
    /\ ~panicked
    /\ ip = Len(Body(prog)) - Len(stop) + 1
    /\ Returned(MainThread) /\ result[MainThread] = "Err"
    /\ call[MainThread] = Stmt("steering", 0)
    /\ duty["drivetrain"] = <<(3 * One) \div 4, 0>>

\* The channel state <<pwm_0, pwm_1>> that output(v) leaves on a driver
\* with floor m, as a function of v and m alone.
ChannelState(v, m) ==
    IF v = 0 THEN <<0, 0>>
    ELSE IF v > 0 THEN <<Rescaled(Min(v, One), m), 0>>
    ELSE <<0, Rescaled(Min(-v, One), m)>>

\* C20: output is history-independent and idempotent.  Whatever calls
\* came before, with whatever outcomes, the channel state after a call
\* output(v) that returned Ok is ChannelState(v, min_duty_cycle); so a
\* repeated output(v) leaves what a single one leaves, and in run_tiger
\* all four channels are 0 after the first stop() and stay 0 throughout
\* and after the second stop() made by Drop.
C20_HistoryIndependent ==
    /\ \A t \in Callers :
           ReturnedOk(t) =>
               duty[call[t].act] = ChannelState(call[t].value, FloorOf(t))
    /\ (prog = "run_tiger" /\ ~panicked /\ ip > Len(Body(prog)))
           => Zeroed("steering") /\ Zeroed("drivetrain")

\* The second stop() of run_tiger, made by Drop after the first one
\* succeeded, has zeroed the drivetrain again and returned Ok.
C20_Witness ==
    /\ prog = "run_tiger"
    /\ ~panicked
    /\ ip = Len(Code(prog))
    /\ ReturnedOk(MainThread)
    /\ call[MainThread] = Stmt("drivetrain", 0)
    /\ ~failed["steering"] /\ ~failed["drivetrain"]
    /\ Zeroed("steering") /\ Zeroed("drivetrain")

============================================================================
